---- MODULE Spec2Model ----
(***************************************************************************)
(* Voxel receiver of the volumetric display: connection handlers on the    *)
(* asyncio event loop, the frame hand-off, the processing thread that      *)
(* rasterizes a frame into the idle page of the shared double buffer and   *)
(* flips the page byte.  Two receivers are modelled side by side:          *)
(*   "deque"  src/python/update/pointvision_update.py  (deque(maxlen=1))   *)
(*   "queue"  src/python/pointvision_update.py         (queue.Queue(2))    *)
(* The variable variant selects the receiver and never changes.            *)
(***************************************************************************)
EXTENDS Integers, Sequences, FiniteSets, TLC

(* ------------------------------ bounds -------------------------------- *)
\* The grid is 128 x 128 x 64 in the source; the model scales it down.
voxels_x == 2
voxels_y == 2
voxels_z == 2
\* Number of concurrently accepted connections.
NumConns == 2
\* Number of payloads the handlers hand over in one behaviour.
MaxOffers == 3
\* Number of voxel-read steps of one hardware scan.
ScanSteps == 2
\* Largest number of point records in a payload of the rasterizer study.
MaxPoints == 2
\* Number of send_packet calls on one VoxelSender.
MaxPackets == 3
\* Voxel coordinates of the line study are 0..MaxCoord.
MaxCoord == 3
\* Frames sent on the connection of the wire study.
MaxFrames == 2
\* Largest number of points in a frame of the wire study.
MaxWirePoints == 1
\* generate_packet packs at most this many points.
MAX_POINTS_PER_FRAME == 100000

(* ------------------------- program constants -------------------------- *)
voxels_count == voxels_x * voxels_y * voxels_z
deque_maxlen == 1
queue_maxsize == 2
\* The four signature bytes b'\xff\xff\xff\xff'.
Signature == <<255, 255, 255, 255>>
\* Largest packet_length the deque receiver accepts (10_000_000).
MAX_FRAME == 10000000

Conns == 1..NumConns
Pages == {0, 1}
\* Colour bytes used by the payloads: lowest non-zero and highest byte.
Colors == {1, 255}
Voxels == 0..(voxels_count - 1)
ZeroPage == [i \in Voxels |-> 0]

(* ------------------------------ payloads ------------------------------ *)
\* A decompressed payload: whole 4-byte records (x,y,z,c) followed by
\* extra trailing bytes (0 when the length is a multiple of 4).  id is the
\* order in which the payload was offered (0: not offered yet).
Rec(x, y, z, c) == [x |-> x, y |-> y, z |-> z, c |-> c]
NoPayload == [id |-> 0, pts |-> <<>>, extra |-> 4]
Body(pts, extra) == [id |-> 0, pts |-> pts, extra |-> extra]
PayloadLen(d) == 4 * Len(d.pts) + d.extra

\* Payloads sent over the connections: empty (0 bytes), a frame of one
\* out-of-bounds and one in-bounds point (8 bytes), and that frame with a
\* trailing byte (9 bytes).
InPoint == Rec(voxels_x - 1, 0, voxels_z - 1, 255)
OutPoint == Rec(voxels_x, 0, 0, 1)
StreamPayloads ==
    {Body(<<>>, 0), Body(<<OutPoint, InPoint>>, 0),
     Body(<<OutPoint, InPoint>>, 1)}

\* Payloads of the rasterizer study: up to MaxPoints records whose
\* coordinates sit on the corners of the grid or one step outside it, with
\* or without a trailing byte.
PaintCoords ==
    {<<0, 0, 0>>, <<voxels_x - 1, 0, 0>>, <<0, voxels_y - 1, 0>>,
     <<0, 0, voxels_z - 1>>, <<voxels_x - 1, voxels_y - 1, voxels_z - 1>>,
     <<voxels_x, 0, 0>>, <<0, voxels_y, 0>>, <<0, 0, voxels_z>>}
PaintRecords == {Rec(p[1], p[2], p[3], c) : p \in PaintCoords, c \in Colors}
SeqsUpTo(S, n) == UNION {[1..k -> S] : k \in 0..n}
PaintPayloads ==
    {Body(s, e) : s \in SeqsUpTo(PaintRecords, MaxPoints), e \in {0, 1}}
\* A page left over from earlier frames: every voxel lit.
StalePage == [i \in Voxels |-> 170]

(* ------------------------- shared region layout ----------------------- *)
\* voxel_double_buffer_t: buffers (two pages of voxels_count bytes) at byte
\* offset 0, then page (1 byte), bpc (1), flags (2), rpm (2), uspf (2).
PageByteOffset == 2 * voxels_count
CtrlBytes == 1..7
\* The control bytes as the driver left them.
DriverCtrl == [k \in CtrlBytes |-> 16 + k]
\* Byte offset of voxel i of page p.
VoxelOffset(p, i) == p * voxels_count + i

\* Slip: the length of the whole buffers field is cleared.
memset_span_both(p) ==
    (p * voxels_count)..(p * voxels_count + 2 * voxels_count - 1)

\* ctypes.memset(byref(buffer, page * voxels_count), 0, voxels_count), or
\* voxel_views[page].fill(0): the byte offsets the clear goes over.
memset_span(p) ==
    (p * voxels_count)..(p * voxels_count + voxels_count - 1)

(* ------------------------------ headers ------------------------------- *)
\* The 8 header bytes: signature (bytes 0..3) and packet_length (bytes
\* 4..7, struct '!I').  Signatures sent: the right one, one that differs in
\* the lowest bit and one that differs in the highest bit.  Lengths sent:
\* 0, the largest accepted and the smallest rejected by the deque receiver.
Signatures == {Signature, <<255, 255, 255, 254>>, <<127, 255, 255, 255>>}
Lengths == {0, MAX_FRAME, MAX_FRAME + 1}
Headers == [sig : Signatures, len : Lengths]
\* What a handler has read of a frame: the header fields and the outcome of
\* gzip.decompress on its payload ("none": payload not read).
Frame(h, g) == [sig |-> h.sig, len |-> h.len, gzip |-> g]
NoFrame == [sig |-> <<>>, len |-> 0, gzip |-> "none"]

VARIABLES
    variant,        \* "deque" or "queue": which receiver runs
    phase,          \* process: "serving", "stopping" (signal seen), "ended"
    cpc,            \* per connection: position of its handle_client task
    held,           \* per connection: the decompressed payload in hand
    frame_queue,    \* deque(maxlen=1) of the deque receiver
    data_queue,     \* queue.Queue(maxsize=2) of the queue receiver
    rpc,            \* position of the processing thread
    data,           \* payload the processing thread took
    current_page,   \* value of buffer.page read in this iteration
    write_page,     \* page the iteration clears and writes
    page,           \* shared region: the page byte
    buffers,        \* shared region: the two voxel pages
    ctrl,           \* shared region: the bytes of bpc, flags, rpm, uspf
    scanPage,       \* hardware scanner: page latched at the start of a scan
    scanPos,        \* hardware scanner: 0 idle, k>0 after k-1 voxel reads
    lastFrame,      \* history: what each handler read last (SpecProto)
    nOffered,       \* history: number of payloads offered so far
    takes,          \* history: one entry per Take, in order
    touched,        \* history: pages cleared or written since the page read
    flips,          \* history: values written by the last two flips
    sender,         \* add-on: the global sender: None or a VoxelSender
    line,           \* add-on: the frame of a call of bresenham_3d, or NoCall
    link            \* one connection at the level of bytes, or NoLink

vars == <<variant, phase, cpc, held, frame_queue, data_queue, rpc, data,
          current_page, write_page, page, buffers, ctrl, scanPage,
          scanPos, lastFrame, nOffered, takes, touched, flips,
          sender, line, link>>

connVars == <<cpc, held>>
slotVars == <<frame_queue, data_queue>>
rastVars == <<rpc, data, current_page, write_page>>
shmVars  == <<page, buffers, ctrl>>
scanVars == <<scanPage, scanPos>>
histVars == <<nOffered, takes, touched, flips>>
\* Everything the receiver process owns.
recvVars == <<variant, phase, connVars, slotVars, rastVars, shmVars, scanVars,
              lastFrame, histVars>>
\* What the studies of the add-on and of the wire own; no step of the
\* receiver changes it.
producerVars == <<sender, line, link>>

\* sender = None
None == [absent |-> "sender"]
\* No call of bresenham_3d is under way.
NoCall == [absent |-> "call"]
\* No connection is followed byte by byte.
NoLink == [absent |-> "connection"]

\* The add-on and the wire before anything runs there.
ProducerIdle == sender = None /\ line = NoCall /\ link = NoLink

(* --------------------------- pure functions --------------------------- *)
\* voxels[y, x, z] on the (voxels_y, voxels_x, voxels_z) view of one page.
voxel_index(x, y, z) == (y * voxels_x + x) * voxels_z + z

\* Slip of the bounds filter: z is not checked.
valid_mask_noz(r) == r.x < voxels_x /\ r.y < voxels_y

\* valid_mask = (x < voxels_x) & (y < voxels_y) & (z < voxels_z)
valid_mask(r) == r.x < voxels_x /\ r.y < voxels_y /\ r.z < voxels_z

RECURSIVE Filter(_)
Filter(s) ==
    IF s = <<>> THEN <<>>
    ELSE IF valid_mask(Head(s)) THEN <<Head(s)>> \o Filter(Tail(s))
         ELSE Filter(Tail(s))

\* One element store of the advanced assignment voxels[y, x, z] = pix.
WriteVoxel(pg, r) ==
    LET i == voxel_index(r.x, r.y, r.z)
    IN  IF i \in DOMAIN pg THEN [pg EXCEPT ![i] = r.c] ELSE pg

\* The stores of the assignment applied in the order ord (numpy leaves the
\* order between repeated indices unspecified).
RECURSIVE ApplyWrites(_, _, _, _)
ApplyWrites(pg, recs, ord, k) ==
    IF k > Len(recs) THEN pg
    ELSE ApplyWrites(WriteVoxel(pg, recs[ord[k]]), recs, ord, k + 1)

ScatterResults(pg, recs) ==
    {ApplyWrites(pg, recs, ord, 1) : ord \in Permutations(1..Len(recs))}

\* Slip: the write page is not cleared.
ClearPage_none(pg) == pg

\* voxels.fill(0) / ctypes.memset(..., 0, voxels_count)
ClearPage(pg) == [i \in DOMAIN pg |-> 0]

\* Slips of the page selection: the active page; always page 1.
InactivePage_same(p) == p
InactivePage_one(p) == 1

\* write_page = 1 - current_page
InactivePage(p) == 1 - p

\* deque(maxlen=1).append: a full deque drops its oldest element.
DequeAppend(q, d) ==
    IF Len(q) >= deque_maxlen THEN Tail(q) \o <<d>> ELSE q \o <<d>>

\* Slip of the Take: the payload is read but left in the queue.
QueueRest_peek(q) == q

\* frame_queue.popleft() / data_queue.get(): what remains queued.
QueueRest(q) == Tail(q)

(* ------------------------------- Init --------------------------------- *)
\* State at start-up, the connections aside.
InitCore ==
    /\ variant \in {"deque", "queue"}
    /\ held = [c \in Conns |-> NoPayload]
    /\ frame_queue = <<>>
    /\ data_queue = <<>>
    /\ rpc = "take"
    /\ data = NoPayload
    /\ current_page = 0
    /\ write_page = 0
    /\ page \in Pages
    /\ ctrl = DriverCtrl
    /\ phase = "serving"
    /\ ProducerIdle
    /\ buffers = [p \in Pages |-> ZeroPage]
    /\ scanPage = 0
    /\ scanPos = 0
    /\ lastFrame = [c \in Conns |-> NoFrame]
    /\ nOffered = 0
    /\ takes = <<>>
    /\ touched = {}
    /\ flips = <<>>

\* NumConns connections have been accepted; each handle_client task is
\* about to read its first header.
Init ==
    /\ InitCore
    /\ cpc = [c \in Conns |-> "AwaitHeader"]

(* ------------------------ connection handlers ------------------------- *)
\* A handler between two awaits occupies the single-threaded event loop:
\* no other handler runs until it awaits again.
Running(c) == cpc[c] \in {"offer", "put"}
\* Slip: handlers on threads of their own, not on one event loop.
LoopFree_threads(c) == TRUE
LoopFree(c) == \A d \in Conns \ {c} : ~Running(d)

\* Slip: leaving the read loop closes the server and every connection.
CloseWriter_server(c) == [d \in Conns |-> "Closed"]

\* finally: writer.close(): the handler of c is done, the others go on.
CloseWriter(c) == [cpc EXCEPT ![c] = "Closed"]

\* readexactly raises IncompleteReadError / ConnectionResetError: the
\* handler leaves the loop and closes the writer.
PeerClose(c) ==
    /\ cpc[c] \in {"AwaitHeader", "AwaitPayload"}
    /\ LoopFree(c)
    /\ cpc' = CloseWriter(c)
    /\ UNCHANGED <<producerVars, variant, phase, lastFrame, held, slotVars, rastVars, shmVars, scanVars,
                   histVars>>

\* Slip: only the first signature byte is compared.
SignatureOk_first(h) == h.sig[1] = 255

\* header[:4] != b'\xff\xff\xff\xff' compares all four bytes.
SignatureOk(h) == h.sig = Signature

\* deque receiver: packet_length > 10_000_000 is refused; the queue
\* receiver has no such check.
LengthOk(h) == variant = "deque" => h.len <= MAX_FRAME

\* One pass of the handler from the header read to its next await, for the
\* header h.  A refused header leaves the loop (break) and the writer is
\* closed.  With packet_length = 0, readexactly(0) returns b'' without
\* waiting and gzip.decompress(b'') is b'': the handler goes on to offer the
\* empty payload.  Otherwise it awaits the payload.
HeaderStep(c, h) ==
    /\ cpc[c] = "AwaitHeader"
    /\ LoopFree(c)
    /\ IF ~SignatureOk(h) \/ ~LengthOk(h)
       THEN /\ cpc' = CloseWriter(c)
            /\ UNCHANGED held
       ELSE IF h.len = 0
       THEN /\ nOffered < MaxOffers
            /\ held' = [held EXCEPT ![c] = Body(<<>>, 0)]
            /\ cpc' = [cpc EXCEPT ![c] = "offer"]
       ELSE /\ cpc' = [cpc EXCEPT ![c] = "AwaitPayload"]
            /\ UNCHANGED held
    /\ UNCHANGED <<producerVars, variant, phase, slotVars, rastVars, shmVars, scanVars,
                   histVars>>

\* deque receiver: header read, signature check, length check.
ReadHeader_deque(c) ==
    /\ variant = "deque"
    /\ \E h \in Headers : HeaderStep(c, h)
    /\ UNCHANGED lastFrame

\* queue receiver: header read, signature check; no length check.
ReadHeader_queue(c) ==
    /\ variant = "queue"
    /\ \E h \in Headers : HeaderStep(c, h)
    /\ UNCHANGED lastFrame

\* Errors of gzip.decompress: BadGzipFile (not a gzip stream, CRC mismatch),
\* zlib.error (corrupt deflate data), EOFError (truncated stream).
GzipErrors == {"BadGzipFile", "zlib.error", "EOFError"}

\* The payload was read and gzip.decompress raised e.  The deque receiver
\* catches BadGzipFile and Exception inside the loop and continues; the
\* queue receiver catches only BadGzipFile there, any other error reaches
\* the outer handler, which closes the writer.
GzipFail(c, e) ==
    /\ cpc[c] = "AwaitPayload"
    /\ LoopFree(c)
    /\ cpc' = IF variant = "deque" \/ e = "BadGzipFile"
              THEN [cpc EXCEPT ![c] = "AwaitHeader"]
              ELSE CloseWriter(c)
    /\ UNCHANGED <<producerVars, variant, phase, held, slotVars, rastVars, shmVars, scanVars,
                   histVars>>

\* The payload was read and decompressed to b.
GzipOk(c, b) ==
    /\ cpc[c] = "AwaitPayload"
    /\ LoopFree(c)
    /\ nOffered < MaxOffers
    /\ held' = [held EXCEPT ![c] = b]
    /\ cpc' = [cpc EXCEPT ![c] = "offer"]
    /\ UNCHANGED <<producerVars, variant, phase, slotVars, rastVars, shmVars, scanVars, histVars>>

\* deque receiver: payload read and decompressed.
ReadPayload_deque(c) ==
    /\ variant = "deque"
    /\ \/ \E b \in StreamPayloads : GzipOk(c, b)
       \/ \E e \in GzipErrors : GzipFail(c, e)
    /\ UNCHANGED lastFrame

\* queue receiver: payload read and decompressed.
ReadPayload_queue(c) ==
    /\ variant = "queue"
    /\ \/ \E b \in StreamPayloads : GzipOk(c, b)
       \/ \E e \in GzipErrors : GzipFail(c, e)
    /\ UNCHANGED lastFrame

\* The payload as offered: stamped with its place in the order of offers.
Stamp(d, n) == [d EXCEPT !.id = n]

\* deque receiver: with queue_lock: frame_queue.append(decompressed).
\* The lock makes the append atomic against the popleft of process_data.
Append_deque(c) ==
    /\ variant = "deque"
    /\ cpc[c] = "offer"
    /\ frame_queue' = DequeAppend(frame_queue, Stamp(held[c], nOffered + 1))
    /\ nOffered' = nOffered + 1
    /\ held' = [held EXCEPT ![c] = NoPayload]
    /\ cpc' = [cpc EXCEPT ![c] = "AwaitHeader"]
    /\ UNCHANGED <<producerVars, variant, phase, lastFrame, data_queue, rastVars, shmVars, scanVars,
                   takes, touched, flips>>

\* Slip: the check is missing, the put goes ahead.
full_never(q) == FALSE

\* data_queue.full()
full(q) == Len(q) >= queue_maxsize

\* queue receiver: if not data_queue.full(): ... ; a full queue drops the
\* new payload, which ends the offer.
CheckFull_queue(c) ==
    /\ variant = "queue"
    /\ cpc[c] = "offer"
    /\ IF full(data_queue)
       THEN /\ held' = [held EXCEPT ![c] = NoPayload]
            /\ cpc' = [cpc EXCEPT ![c] = "AwaitHeader"]
            /\ nOffered' = nOffered + 1
       ELSE /\ cpc' = [cpc EXCEPT ![c] = "put"]
            /\ UNCHANGED <<held, nOffered>>
    /\ UNCHANGED <<producerVars, variant, phase, lastFrame, slotVars, rastVars, shmVars, scanVars,
                   takes, touched, flips>>

\* queue receiver: data_queue.put(decompressed), a blocking put: it waits
\* while the queue is full.
Put_queue(c) ==
    /\ variant = "queue"
    /\ cpc[c] = "put"
    /\ Len(data_queue) < queue_maxsize
    /\ data_queue' = Append(data_queue, Stamp(held[c], nOffered + 1))
    /\ nOffered' = nOffered + 1
    /\ held' = [held EXCEPT ![c] = NoPayload]
    /\ cpc' = [cpc EXCEPT ![c] = "AwaitHeader"]
    /\ UNCHANGED <<producerVars, variant, phase, lastFrame, frame_queue, rastVars, shmVars, scanVars,
                   takes, touched, flips>>

(* ------------------------- processing thread -------------------------- *)
\* What opening the shared region can give: a mapping of the full layout,
\* FileNotFoundError from os.open (region missing), ValueError from mmap
\* (region smaller than sizeof(voxel_double_buffer_t)).
ShmOutcomes == {"ok", "FileNotFoundError", "ValueError"}

\* Start of process_data: os.open, mmap, from_buffer.  On an error the
\* except clauses print a message and the thread function returns.
OpenShm ==
    /\ rpc = "open"
    /\ \E r \in ShmOutcomes : rpc' = IF r = "ok" THEN "take" ELSE "exited"
    /\ UNCHANGED <<producerVars, variant, phase, lastFrame, connVars, slotVars, data, current_page,
                   write_page, shmVars, scanVars, histVars>>

\* What a Take records: the payload's id and the offers made since the
\* previous Take (ids lo+1 .. hi).
LastMark == IF takes = <<>> THEN 0 ELSE takes[Len(takes)].hi
TakeEntry(d) == [id |-> d.id, lo |-> LastMark, hi |-> nOffered]

\* deque receiver: with queue_lock: if frame_queue: data = popleft().
\* An empty deque makes the loop sleep 1 ms and retry (no state change).
Take_deque ==
    /\ variant = "deque"
    /\ rpc = "take"
    /\ frame_queue # <<>>
    /\ data' = Head(frame_queue)
    /\ frame_queue' = QueueRest(frame_queue)
    /\ takes' = Append(takes, TakeEntry(Head(frame_queue)))
    /\ rpc' = "read"
    /\ UNCHANGED <<producerVars, variant, phase, lastFrame, connVars, data_queue, current_page, write_page,
                   shmVars, scanVars, nOffered, touched, flips>>

\* queue receiver: data = data_queue.get(), blocking while empty.
Take_queue ==
    /\ variant = "queue"
    /\ rpc = "take"
    /\ data_queue # <<>>
    /\ data' = Head(data_queue)
    /\ data_queue' = QueueRest(data_queue)
    /\ takes' = Append(takes, TakeEntry(Head(data_queue)))
    /\ rpc' = "read"
    /\ UNCHANGED <<producerVars, variant, phase, lastFrame, connVars, frame_queue, current_page, write_page,
                   shmVars, scanVars, nOffered, touched, flips>>

\* current_page = buffer.page; write_page = 1 - current_page
ReadPage ==
    /\ rpc = "read"
    /\ current_page' = page
    /\ write_page' = InactivePage(page)
    /\ touched' = {}
    /\ rpc' = "clear"
    /\ UNCHANGED <<producerVars, variant, phase, lastFrame, connVars, slotVars, data, shmVars, scanVars,
                   nOffered, takes, flips>>

\* voxels.fill(0) on the write page (memset in the queue receiver).
Clear ==
    /\ rpc = "clear"
    /\ LET span == memset_span(write_page)
       IN  /\ buffers' =
                [p \in Pages |->
                    IF \A i \in Voxels : VoxelOffset(p, i) \notin span
                    THEN buffers[p]
                    ELSE [i \in Voxels |->
                            IF VoxelOffset(p, i) \in span
                            THEN ClearPage(buffers[p])[i]
                            ELSE buffers[p][i]]]
           /\ page' = IF PageByteOffset \in span THEN 0 ELSE page
           /\ ctrl' = [k \in CtrlBytes |->
                          IF PageByteOffset + k \in span THEN 0 ELSE ctrl[k]]
    /\ touched' = touched \cup {write_page}
    /\ rpc' = "paint"
    /\ UNCHANGED <<producerVars, variant, phase, lastFrame, connVars, slotVars, data, current_page,
                   write_page, scanVars, nOffered, takes, flips>>

\* deque receiver: num_points = len(data) // 4; if num_points == 0: continue
SkipEmpty_deque ==
    /\ variant = "deque"
    /\ rpc = "paint"
    /\ PayloadLen(data) \div 4 = 0
    /\ rpc' = "take"
    /\ data' = NoPayload
    /\ UNCHANGED <<producerVars, variant, phase, lastFrame, connVars, slotVars, current_page, write_page,
                   shmVars, scanVars, histVars>>

\* Frames that reach np.frombuffer(data).reshape(-1, 4).
Reshaped ==
    /\ rpc = "paint"
    /\ variant = "deque" => PayloadLen(data) \div 4 # 0

\* Slip: the page is flipped on the way out of a failed frame.
ReshapeFail_flips ==
    /\ Reshaped
    /\ PayloadLen(data) % 4 # 0
    /\ rpc' = "take"
    /\ data' = NoPayload
    /\ page' = write_page
    /\ UNCHANGED <<producerVars, variant, phase, lastFrame, connVars, slotVars, current_page, write_page,
                   buffers, ctrl, scanVars, histVars>>

\* Slip: no try around the frame: the error ends the thread.
ReshapeFail_exits ==
    /\ Reshaped
    /\ PayloadLen(data) % 4 # 0
    /\ rpc' = "exited"
    /\ data' = NoPayload
    /\ UNCHANGED <<producerVars, variant, phase, lastFrame, connVars, slotVars, current_page,
                   write_page, shmVars, scanVars, histVars>>

\* reshape(-1, 4) raises ValueError when the length is not a multiple of 4;
\* the except clause prints and the loop takes the next payload.
ReshapeFail ==
    /\ Reshaped
    /\ PayloadLen(data) % 4 # 0
    /\ rpc' = "take"
    /\ data' = NoPayload
    /\ UNCHANGED <<producerVars, variant, phase, lastFrame, connVars, slotVars, current_page, write_page,
                   shmVars, scanVars, histVars>>

\* Bounds filter and voxels[y, x, z] = pix on the write page.
Scatter ==
    /\ Reshaped
    /\ PayloadLen(data) % 4 = 0
    /\ \E pg \in ScatterResults(buffers[write_page], Filter(data.pts)) :
         buffers' = [buffers EXCEPT ![write_page] = pg]
    /\ touched' = IF Filter(data.pts) = <<>> THEN touched
                  ELSE touched \cup {write_page}
    /\ rpc' = "flip"
    /\ UNCHANGED <<producerVars, variant, phase, lastFrame, connVars, slotVars, data, current_page,
                   write_page, page, ctrl, scanVars, nOffered, takes, flips>>

\* The last two values written into the page byte.
Last2(s) == IF Len(s) <= 2 THEN s ELSE SubSeq(s, Len(s) - 1, Len(s))

\* buffer.page = write_page (a c_uint8 store)
Flip ==
    /\ rpc = "flip"
    /\ page' = write_page % 256
    /\ flips' = Last2(Append(flips, write_page % 256))
    /\ rpc' = "take"
    /\ data' = NoPayload
    /\ UNCHANGED <<producerVars, variant, phase, lastFrame, connVars, slotVars, current_page, write_page,
                   buffers, ctrl, scanVars, nOffered, takes, touched>>

(* ------------------------------ shutdown ------------------------------ *)
\* KeyboardInterrupt reaches asyncio.run(main()): the main task and every
\* handler task are cancelled at their await; CancelledError passes the
\* except clauses of handle_client and the finally clause closes the
\* writer.  Nothing is done to frame_queue / data_queue or to the
\* processing thread.
Shutdown ==
    /\ phase = "serving"
    /\ \A c \in Conns : ~Running(c)
    /\ phase' = "stopping"
    /\ cpc' = [c \in Conns |-> "Closed"]
    /\ UNCHANGED <<producerVars, variant, lastFrame, held, slotVars, rastVars, shmVars,
                   scanVars, histVars>>

\* The main thread prints its message and the interpreter exits.  The
\* processing thread is a daemon thread: it is not joined, it stops
\* wherever it is.
ProcessEnd ==
    /\ phase = "stopping"
    /\ phase' = "ended"
    /\ rpc' = "killed"
    /\ UNCHANGED <<producerVars, variant, lastFrame, connVars, slotVars, data, current_page,
                   write_page, shmVars, scanVars, histVars>>

(* -------------------------- hardware scanner -------------------------- *)
\* The driver reads the page byte once at the start of a scan ...
ScanStart ==
    /\ scanPos = 0
    /\ scanPage' = page
    /\ scanPos' = 1
    /\ UNCHANGED <<producerVars, variant, phase, lastFrame, connVars, slotVars, rastVars, shmVars, histVars>>

\* ... reads the voxels of that page over ScanSteps steps ...
ScanStep ==
    /\ scanPos \in 1..ScanSteps
    /\ scanPos' = scanPos + 1
    /\ UNCHANGED <<producerVars, variant, phase, lastFrame, connVars, slotVars, rastVars, shmVars, scanPage,
                   histVars>>

\* ... and ends the scan before it reads the page byte again.
ScanEnd ==
    /\ scanPos = ScanSteps + 1
    /\ scanPos' = 0
    /\ UNCHANGED <<producerVars, variant, phase, lastFrame, connVars, slotVars, rastVars, shmVars, scanPage,
                   histVars>>

(* ------------------------------- Next --------------------------------- *)
Next ==
    \/ \E c \in Conns : PeerClose(c)
    \/ \E c \in Conns : ReadHeader_deque(c)
    \/ \E c \in Conns : ReadHeader_queue(c)
    \/ \E c \in Conns : ReadPayload_deque(c)
    \/ \E c \in Conns : ReadPayload_queue(c)
    \/ \E c \in Conns : Append_deque(c)
    \/ \E c \in Conns : CheckFull_queue(c)
    \/ \E c \in Conns : Put_queue(c)
    \/ Take_deque
    \/ Take_queue
    \/ ReadPage
    \/ Clear
    \/ SkipEmpty_deque
    \/ ReshapeFail
    \/ Scatter
    \/ Flip

Spec == Init /\ [][Next]_vars

\* The receiver next to the scanning hardware, one connection open.
InitScan ==
    /\ InitCore
    /\ cpc = [c \in Conns |-> IF c = 1 THEN "AwaitHeader" ELSE "Closed"]

NextScan ==
    \/ Next
    \/ ScanStart
    \/ ScanStep
    \/ ScanEnd

SpecScan == InitScan /\ [][NextScan]_vars

TypeOK ==
    /\ variant \in {"deque", "queue"}
    /\ page \in Pages
    /\ ctrl \in [CtrlBytes -> 0..255]
    /\ phase \in {"serving", "stopping", "ended"}
    /\ sender = None \/ sender.running \in BOOLEAN
    /\ line = NoCall \/ line.bpc \in {"x", "y", "z", "return"}
    /\ link = NoLink \/ link.wpc \in {"header", "payload", "closed"}
    /\ rpc \in {"open", "exited", "killed", "take", "read", "clear", "paint",
               "flip"}
    /\ scanPos \in 0..(ScanSteps + 1)
    /\ nOffered \in 0..MaxOffers

\* The processing thread alone, with one payload waiting for it and pages
\* that hold whatever earlier frames left there.
InitPaint ==
    /\ variant \in {"deque", "queue"}
    /\ cpc = [c \in Conns |-> "Closed"]
    /\ held = [c \in Conns |-> NoPayload]
    /\ \E b \in PaintPayloads :
         /\ frame_queue = IF variant = "deque" THEN <<Stamp(b, 1)>> ELSE <<>>
         /\ data_queue = IF variant = "queue" THEN <<Stamp(b, 1)>> ELSE <<>>
    /\ rpc = "take"
    /\ data = NoPayload
    /\ current_page = 0
    /\ write_page = 0
    /\ page \in Pages
    /\ ctrl = DriverCtrl
    /\ phase = "serving"
    /\ ProducerIdle
    /\ buffers \in [Pages -> {ZeroPage, StalePage}]
    /\ scanPage = 0
    /\ scanPos = 0
    /\ lastFrame = [c \in Conns |-> NoFrame]
    /\ nOffered = 1
    /\ takes = <<>>
    /\ touched = {}
    /\ flips = <<>>

NextPaint ==
    \/ Take_deque
    \/ Take_queue
    \/ ReadPage
    \/ Clear
    \/ SkipEmpty_deque
    \/ ReshapeFail
    \/ Scatter
    \/ Flip

SpecPaint == InitPaint /\ [][NextPaint]_vars

\* The header read with the header kept on record.
RecordHeader(c) ==
    \E h \in Headers :
        /\ HeaderStep(c, h)
        /\ lastFrame' = [lastFrame EXCEPT ![c] =
                            Frame(h, IF cpc'[c] = "offer" THEN "ok"
                                     ELSE "none")]

\* The payload read with the outcome of gzip.decompress kept on record.
RecordPayload(c) ==
    \/ /\ \E b \in StreamPayloads : GzipOk(c, b)
       /\ lastFrame' = [lastFrame EXCEPT ![c].gzip = "ok"]
    \/ \E e \in GzipErrors :
          /\ GzipFail(c, e)
          /\ lastFrame' = [lastFrame EXCEPT ![c].gzip = e]

\* The receiver with one connection open whose headers are kept on record.
InitProto ==
    /\ InitCore
    /\ cpc = [c \in Conns |-> IF c = 1 THEN "AwaitHeader" ELSE "Closed"]

NextProto ==
    \/ \E c \in Conns : PeerClose(c)
    \/ \E c \in Conns : RecordHeader(c)
    \/ \E c \in Conns : RecordPayload(c)
    \/ \E c \in Conns : Append_deque(c)
    \/ \E c \in Conns : CheckFull_queue(c)
    \/ \E c \in Conns : Put_queue(c)
    \/ Take_deque
    \/ Take_queue
    \/ ReadPage
    \/ Clear
    \/ SkipEmpty_deque
    \/ ReshapeFail
    \/ Scatter
    \/ Flip

SpecProto == InitProto /\ [][NextProto]_vars

\* The receiver from the start of main: the processing thread has been
\* started and is about to open the shared region; one connection is open.
InitBoot ==
    /\ variant \in {"deque", "queue"}
    /\ cpc = [c \in Conns |-> IF c = 1 THEN "AwaitHeader" ELSE "Closed"]
    /\ held = [c \in Conns |-> NoPayload]
    /\ frame_queue = <<>>
    /\ data_queue = <<>>
    /\ rpc = "open"
    /\ data = NoPayload
    /\ current_page = 0
    /\ write_page = 0
    /\ page \in Pages
    /\ ctrl = DriverCtrl
    /\ phase = "serving"
    /\ ProducerIdle
    /\ buffers = [p \in Pages |-> ZeroPage]
    /\ scanPage = 0
    /\ scanPos = 0
    /\ lastFrame = [c \in Conns |-> NoFrame]
    /\ nOffered = 0
    /\ takes = <<>>
    /\ touched = {}
    /\ flips = <<>>

NextBoot ==
    \/ OpenShm
    \/ Next

SpecBoot == InitBoot /\ [][NextBoot]_vars

\* The receiver with one connection open and a processing thread that the
\* operating system keeps scheduling: a step of the thread that stays
\* possible is eventually taken.  The peers are under no obligation.
SpecLive == InitScan /\ [][Next]_vars /\ WF_vars(NextPaint)

\* The same with every connection open.
SpecFair == Init /\ [][Next]_vars /\ WF_vars(NextPaint)

\* The receiver with one connection open, up to the end of the process.
NextStop ==
    \/ Next
    \/ Shutdown
    \/ ProcessEnd

SpecStop == InitScan /\ [][NextStop]_vars

(* ============================ VoxelSender ============================= *)
\* The receiver when the study is about the producer alone.
ReceiverOff ==
    /\ variant = "deque"
    /\ phase = "ended"
    /\ cpc = [c \in Conns |-> "Closed"]
    /\ held = [c \in Conns |-> NoPayload]
    /\ frame_queue = <<>>
    /\ data_queue = <<>>
    /\ rpc = "killed"
    /\ data = NoPayload
    /\ current_page = 0
    /\ write_page = 0
    /\ page = 0
    /\ buffers = [p \in Pages |-> ZeroPage]
    /\ ctrl = DriverCtrl
    /\ scanPage = 0
    /\ scanPos = 0
    /\ lastFrame = [c \in Conns |-> NoFrame]
    /\ nOffered = 0
    /\ takes = <<>>
    /\ touched = {}
    /\ flips = <<>>

\* VoxelSender.__init__; upc is the position of the Blender thread in the
\* sender's life, packet 0 stands for None, nPackets counts the send_packet
\* calls, sent lists the packets handed to sendall and replaced holds the
\* packets replaced before they were popped.
VoxelSender ==
    [running |-> FALSE, thread |-> "none", spc |-> "while",
     packet_queue |-> <<>>, packet |-> 0, sock |-> "none", upc |-> "new",
     nPackets |-> 0, sent |-> <<>>, replaced |-> {}]

\* execute(): sender = VoxelSender(HOST_IP, PORT); start(): connect()
\* succeeds: the socket is connected, self.running is set and the send
\* thread is started.
StartOk ==
    /\ sender = None
    /\ sender' = [VoxelSender EXCEPT !.sock = "connected", !.running = TRUE,
                                     !.thread = "alive", !.upc = "started"]
    /\ UNCHANGED <<recvVars, line, link>>

\* execute(): connect() fails and start returns False; the operator is
\* cancelled and this sender stays unused.
StartFail ==
    /\ sender = None
    /\ sender' = [VoxelSender EXCEPT !.upc = "failed"]
    /\ UNCHANGED <<recvVars, line, link>>

\* Slip: the packet is appended behind the ones still queued.
send_packet_append(q, p) == Append(q, p)

\* with self.lock: self.packet_queue = [packet]
send_packet(q, p) == <<p>>

\* The modal timer calls sender.send_packet(packet) while the operator runs.
SendPacket ==
    /\ sender # None
    /\ sender.upc = "started"
    /\ sender.nPackets < MaxPackets
    /\ LET p == sender.nPackets + 1
           q == send_packet(sender.packet_queue, p)
           gone == {o \in 1..sender.nPackets :
                      /\ \E k \in 1..Len(sender.packet_queue) :
                            sender.packet_queue[k] = o
                      /\ \A k \in 1..Len(q) : q[k] # o}
       IN  sender' = [sender EXCEPT !.nPackets = p, !.packet_queue = q,
                                    !.replaced = @ \cup gone]
    /\ UNCHANGED <<recvVars, line, link>>

\* _send_loop: while self.running
LoopTest ==
    /\ sender # None
    /\ sender.thread = "alive"
    /\ sender.spc = "while"
    /\ sender' = IF sender.running
                 THEN [sender EXCEPT !.spc = "pop"]
                 ELSE [sender EXCEPT !.thread = "exited"]
    /\ UNCHANGED <<recvVars, line, link>>

\* _send_loop: packet = None; with self.lock: if self.packet_queue:
\* packet = self.packet_queue.pop(0).  Without a packet the loop sleeps
\* 1 ms and tests self.running again.
LoopPop ==
    /\ sender # None
    /\ sender.thread = "alive"
    /\ sender.spc = "pop"
    /\ sender' = IF sender.packet_queue # <<>>
                 THEN [sender EXCEPT !.packet = Head(sender.packet_queue),
                                     !.packet_queue = Tail(@),
                                     !.spc = "send"]
                 ELSE [sender EXCEPT !.packet = 0, !.spc = "while"]
    /\ UNCHANGED <<recvVars, line, link>>

\* _send_loop: self.sock.sendall(packet) succeeds.
LoopSendOk ==
    /\ sender # None
    /\ sender.thread = "alive"
    /\ sender.spc = "send"
    /\ sender.sock = "connected"
    /\ sender' = [sender EXCEPT !.sent = Append(@, sender.packet),
                                !.packet = 0, !.spc = "while"]
    /\ UNCHANGED <<recvVars, line, link>>

\* _send_loop: sendall raises (the peer is gone, or the socket was closed
\* by stop()): the except clause prints and breaks out of the loop.
LoopSendError ==
    /\ sender # None
    /\ sender.thread = "alive"
    /\ sender.spc = "send"
    /\ sender' = [sender EXCEPT !.thread = "exited", !.packet = 0]
    /\ UNCHANGED <<recvVars, line, link>>

\* cancel(): sender.stop(): self.running = False
StopBegin ==
    /\ sender # None
    /\ sender.upc = "started"
    /\ sender' = [sender EXCEPT !.running = FALSE, !.upc = "join"]
    /\ UNCHANGED <<recvVars, line, link>>

\* stop(): self.thread.join(timeout=1.0) returns, the thread gone or not,
\* and self.sock.close().
StopClose ==
    /\ sender # None
    /\ sender.upc = "join"
    /\ sender' = [sender EXCEPT !.sock = "closed", !.upc = "stopped"]
    /\ UNCHANGED <<recvVars, line, link>>

InitSender == ReceiverOff /\ ProducerIdle

NextSender ==
    \/ StartOk
    \/ StartFail
    \/ SendPacket
    \/ LoopTest
    \/ LoopPop
    \/ LoopSendOk
    \/ LoopSendError
    \/ StopBegin
    \/ StopClose

SpecSender == InitSender /\ [][NextSender]_vars

(* ============================ bresenham_3d ============================ *)
Coords == 0..MaxCoord

abs(n) == IF n < 0 THEN -n ELSE n

\* sx = 1 if x0 < x1 else -1
step_dir(a, b) == IF a < b THEN 1 ELSE -1

\* Slip: the error term starts at 2 * d + drive.
err_init_sum(d, drive) == 2 * d + drive

\* err_y = 2 * dy - dx
err_init(d, drive) == 2 * d - drive

\* The frame of bresenham_3d(x0, y0, z0, x1, y1, z1) when it enters the loop
\* of its driving axis: points = []; dx, dy, dz; sx, sy, sz; the branch
\* (bpc) and the error terms of the two other axes. from keeps the first
\* argument as it was passed.
Entered(a0, b0, c0, a1, b1, c1) ==
    LET ddx == abs(a1 - a0)
        ddy == abs(b1 - b0)
        ddz == abs(c1 - c0)
        branch == IF ddx >= ddy /\ ddx >= ddz THEN "x"
                  ELSE IF ddy >= ddx /\ ddy >= ddz THEN "y"
                  ELSE "z"
        drive == IF branch = "x" THEN ddx
                 ELSE IF branch = "y" THEN ddy
                 ELSE ddz
    IN  [x0 |-> a0, y0 |-> b0, z0 |-> c0, x1 |-> a1, y1 |-> b1, z1 |-> c1,
         dx |-> ddx, dy |-> ddy, dz |-> ddz,
         sx |-> step_dir(a0, a1), sy |-> step_dir(b0, b1),
         sz |-> step_dir(c0, c1),
         err_x |-> IF branch = "x" THEN 0 ELSE err_init(ddx, drive),
         err_y |-> IF branch = "y" THEN 0 ELSE err_init(ddy, drive),
         err_z |-> IF branch = "z" THEN 0 ELSE err_init(ddz, drive),
         points |-> <<>>, bpc |-> branch, from |-> <<a0, b0, c0>>]

\* voxelize_object: line_points = bresenham_3d(*vox0, *vox1) with any two
\* voxels of the cube.
LineBegin ==
    /\ line = NoCall
    /\ \E a0, b0, c0, a1, b1, c1 \in Coords :
          line' = Entered(a0, b0, c0, a1, b1, c1)
    /\ UNCHANGED <<recvVars, sender, link>>

\* One pass of 'while x0 != x1' (x drives).
LineStepX ==
    /\ line # NoCall
    /\ line.bpc = "x"
    /\ line.x0 # line.x1
    /\ line' = [line EXCEPT
          !.points = Append(@, <<line.x0, line.y0, line.z0>>),
          !.y0 = IF line.err_y > 0 THEN @ + line.sy ELSE @,
          !.z0 = IF line.err_z > 0 THEN @ + line.sz ELSE @,
          !.err_y = (IF @ > 0 THEN @ - 2 * line.dx ELSE @) + 2 * line.dy,
          !.err_z = (IF @ > 0 THEN @ - 2 * line.dx ELSE @) + 2 * line.dz,
          !.x0 = @ + line.sx]
    /\ UNCHANGED <<recvVars, sender, link>>

\* One pass of 'while y0 != y1' (y drives).
LineStepY ==
    /\ line # NoCall
    /\ line.bpc = "y"
    /\ line.y0 # line.y1
    /\ line' = [line EXCEPT
          !.points = Append(@, <<line.x0, line.y0, line.z0>>),
          !.x0 = IF line.err_x > 0 THEN @ + line.sx ELSE @,
          !.z0 = IF line.err_z > 0 THEN @ + line.sz ELSE @,
          !.err_x = (IF @ > 0 THEN @ - 2 * line.dy ELSE @) + 2 * line.dx,
          !.err_z = (IF @ > 0 THEN @ - 2 * line.dy ELSE @) + 2 * line.dz,
          !.y0 = @ + line.sy]
    /\ UNCHANGED <<recvVars, sender, link>>

\* One pass of 'while z0 != z1' (z drives).
LineStepZ ==
    /\ line # NoCall
    /\ line.bpc = "z"
    /\ line.z0 # line.z1
    /\ line' = [line EXCEPT
          !.points = Append(@, <<line.x0, line.y0, line.z0>>),
          !.x0 = IF line.err_x > 0 THEN @ + line.sx ELSE @,
          !.y0 = IF line.err_y > 0 THEN @ + line.sy ELSE @,
          !.err_x = (IF @ > 0 THEN @ - 2 * line.dz ELSE @) + 2 * line.dx,
          !.err_y = (IF @ > 0 THEN @ - 2 * line.dz ELSE @) + 2 * line.dy,
          !.z0 = @ + line.sz]
    /\ UNCHANGED <<recvVars, sender, link>>

\* The loop of the driving axis is left: points.append((x1, y1, z1));
\* return points.
LineReturn ==
    /\ line # NoCall
    /\ \/ line.bpc = "x" /\ line.x0 = line.x1
       \/ line.bpc = "y" /\ line.y0 = line.y1
       \/ line.bpc = "z" /\ line.z0 = line.z1
    /\ line' = [line EXCEPT
          !.points = Append(@, <<line.x1, line.y1, line.z1>>),
          !.bpc = "return"]
    /\ UNCHANGED <<recvVars, sender, link>>

InitLine == ReceiverOff /\ ProducerIdle

NextLine ==
    \/ LineBegin
    \/ LineStepX
    \/ LineStepY
    \/ LineStepZ
    \/ LineReturn

SpecLine == InitLine /\ [][NextLine]_vars

(* ============================== the wire ============================== *)
\* Points (x, y, z, color) handed to the packet builders; the second one
\* packs to four bytes 0xFF.
WirePoints == {[x |-> 1, y |-> 0, z |-> 1, c |-> 7],
               [x |-> 255, y |-> 255, z |-> 255, c |-> 255]}
PointLists == UNION {[1..n -> WirePoints] : n \in 0..MaxWirePoints}
Builders == {"generate_packet", "generate_sphere_packet"}

\* if len(points) > MAX_POINTS_PER_FRAME: points = points[:MAX_POINTS_PER_FRAME]
\* (generate_packet only)
Truncate(b, pts) ==
    IF b = "generate_packet" /\ Len(pts) > MAX_POINTS_PER_FRAME
    THEN SubSeq(pts, 1, MAX_POINTS_PER_FRAME)
    ELSE pts

\* struct.pack('BBBB', *p)
pack_BBBB(p) == <<p.x, p.y, p.z, p.c>>

\* for p in points: raw_data.extend(struct.pack('BBBB', *p))
RECURSIVE raw_data(_)
raw_data(pts) ==
    IF pts = <<>> THEN <<>>
    ELSE pack_BBBB(Head(pts)) \o raw_data(Tail(pts))

\* Slip: the length field is packed little-endian.
pack_I_little(n) ==
    <<n % 256, (n \div 256) % 256, (n \div 65536) % 256,
      (n \div 16777216) % 256>>

\* struct.pack('>I', n)
pack_I(n) ==
    <<(n \div 16777216) % 256, (n \div 65536) % 256, (n \div 256) % 256,
      n % 256>>

\* struct.unpack('!I', b)[0]
unpack_I(b) == b[1] * 16777216 + b[2] * 65536 + b[3] * 256 + b[4]

\* gzip as an invertible encoding: the magic bytes 1F 8B, the flag byte
\* that depends on the level (4 for compresslevel=1, 2 for the default 9),
\* the data with every byte changed, and the size of the data modulo 256.
gzip_flag(b) == IF b = "generate_packet" THEN 4 ELSE 2
gzip_compress(raw, b) ==
    <<31, 139, gzip_flag(b)>> \o [k \in 1..Len(raw) |-> 255 - raw[k]]
        \o <<Len(raw) % 256>>
gzip_ok(z) ==
    /\ Len(z) >= 4
    /\ z[1] = 31 /\ z[2] = 139
    /\ z[Len(z)] = (Len(z) - 4) % 256
gzip_decompress(z) == [k \in 1..(Len(z) - 4) |-> 255 - z[k + 3]]

\* header + length + compressed
build_packet(b, pts) ==
    LET compressed == gzip_compress(raw_data(Truncate(b, pts)), b)
    IN  Signature \o pack_I(Len(compressed)) \o compressed

\* A connection of the add-on (generate_packet) or of the test program
\* (generate_sphere_packet) is accepted and handle_client starts on it.
\* wire: bytes sent and not yet delivered; reader: bytes in the
\* StreamReader; wpc: position of handle_client; decoded, built and nRead
\* keep the payloads decompressed, the point lists packed and the number of
\* bytes read.
Accept ==
    /\ link = NoLink
    /\ \E b \in Builders :
          link' = [builder |-> b, wire |-> <<>>, reader |-> <<>>,
                   wpc |-> "header", packet_length |-> 0, decoded |-> <<>>,
                   built |-> <<>>, nRead |-> 0]
    /\ UNCHANGED <<recvVars, sender, line>>

\* The producer sends the next frame: sock.sendall(generate_packet(points))
\* or, in the test program, of generate_sphere_packet.
SendFrame ==
    /\ link # NoLink
    /\ Len(link.built) < MaxFrames
    /\ \E pts \in PointLists :
          link' = [link EXCEPT
                     !.wire = @ \o build_packet(link.builder, pts),
                     !.built = Append(@, pts)]
    /\ UNCHANGED <<recvVars, sender, line>>

\* TCP delivers the next bytes, in pieces of any size.
Deliver ==
    /\ link # NoLink
    /\ \E k \in 1..Len(link.wire) :
          link' = [link EXCEPT
                     !.reader = @ \o SubSeq(link.wire, 1, k),
                     !.wire = SubSeq(@, k + 1, Len(@))]
    /\ UNCHANGED <<recvVars, sender, line>>

\* handle_client: header = await reader.readexactly(8); the signature check;
\* packet_length; the check against 10_000_000.
WireReadHeader ==
    /\ link # NoLink
    /\ link.wpc = "header"
    /\ Len(link.reader) >= 8
    /\ LET header == SubSeq(link.reader, 1, 8)
           length == unpack_I(SubSeq(header, 5, 8))
           read == [link EXCEPT !.reader = SubSeq(@, 9, Len(@)),
                                !.nRead = @ + 8]
       IN  link' = IF SubSeq(header, 1, 4) # Signature
                   THEN [read EXCEPT !.wpc = "closed"]
                   ELSE [read EXCEPT
                           !.packet_length = length,
                           !.wpc = IF length > MAX_FRAME THEN "closed"
                                   ELSE "payload"]
    /\ UNCHANGED <<recvVars, sender, line>>

\* handle_client: compressed_data = await reader.readexactly(packet_length);
\* decompressed = gzip.decompress(compressed_data), offered to the slot; on
\* an error of gzip the loop continues with the next header.
WireReadPayload ==
    /\ link # NoLink
    /\ link.wpc = "payload"
    /\ Len(link.reader) >= link.packet_length
    /\ LET compressed_data == SubSeq(link.reader, 1, link.packet_length)
       IN  link' = [link EXCEPT
                      !.decoded = IF gzip_ok(compressed_data)
                                  THEN Append(@, gzip_decompress(compressed_data))
                                  ELSE @,
                      !.reader = SubSeq(@, link.packet_length + 1, Len(@)),
                      !.nRead = @ + link.packet_length,
                      !.wpc = "header"]
    /\ UNCHANGED <<recvVars, sender, line>>

InitWire == ReceiverOff /\ ProducerIdle

NextWire ==
    \/ Accept
    \/ SendFrame
    \/ Deliver
    \/ WireReadHeader
    \/ WireReadPayload

SpecWire == InitWire /\ [][NextWire]_vars

(* ====================== properties of the receiver ==================== *)
\* The hardware still has voxels of scanPage to read.
ScanInProgress == scanPos \in 1..ScanSteps

\* C1: tear-freedom: no step of the processing thread clears or writes the
\* page that an in-progress hardware scan is reading.
C1_TearFree ==
    [][(Clear \/ (Scatter /\ Filter(data.pts) # <<>>))
          => ~(ScanInProgress /\ scanPage = write_page)]_vars

\* C2: ownership safety: every page cleared or written since the read of the
\* page byte is the complement of the value read, and no step changes a
\* byte of the page that the read named.
C2_TouchedIdle == \A p \in touched : p = 1 - current_page
C2_WritesIdle ==
    rpc \in {"clear", "paint"} => buffers'[current_page] = buffers[current_page]
C2_OwnershipSafety == []C2_TouchedIdle /\ [][C2_WritesIdle]_vars
\* A frame has cleared and painted the idle page and is about to flip.
C2_Witness ==
    /\ rpc = "flip"
    /\ touched = {write_page}
    /\ buffers[write_page] # ZeroPage

\* C3: page alternation: the page byte stays in {0,1} and each flip writes
\* the complement of the value the previous flip wrote.
C3_PageAlternation ==
    /\ page \in {0, 1}
    /\ Len(flips) = 2 => flips[2] = 1 - flips[1]
\* Two flips with a rejected frame among the three frames taken.
C3_Witness == Len(flips) = 2 /\ Len(takes) = 3 /\ rpc = "take"

\* Every surviving point of the frame in hand is on the write page.
Painted ==
    \A k \in 1..Len(data.pts) :
        valid_mask(data.pts[k]) =>
            \E m \in 1..Len(data.pts) :
                /\ valid_mask(data.pts[m])
                /\ voxel_index(data.pts[m].x, data.pts[m].y, data.pts[m].z)
                     = voxel_index(data.pts[k].x, data.pts[k].y, data.pts[k].z)
                /\ buffers[write_page][voxel_index(data.pts[k].x,
                       data.pts[k].y, data.pts[k].z)] = data.pts[m].c

\* C4: the page byte changes only in the last step of a frame, after the
\* idle page was cleared and every surviving point written; a frame that is
\* abandoned before that step leaves the page byte as it was.
C4_FlipLast ==
    [][/\ page' # page =>
            /\ rpc = "flip"
            /\ rpc' = "take"
            /\ write_page \in touched
            /\ Painted
       /\ (rpc \in {"read", "clear", "paint"} /\ rpc' = "take")
            => page' = page]_vars
\* A frame was taken, the idle page cleared, the frame abandoned, no flip.
C4_Witness ==
    /\ rpc = "take"
    /\ Len(takes) = 1
    /\ touched # {}
    /\ flips = <<>>

\* C5: bounded memory: at most one payload is pending between the handlers
\* and the processing thread, in both receivers.
C5_BoundedMemory == Len(frame_queue) + Len(data_queue) <= 1

\* C6: newest wins: a Take that follows offers lo+1..hi returns payload hi,
\* and no Take ever returns one of lo+1..hi-1.
C6_NewestWins ==
    \A k \in 1..Len(takes) :
        /\ takes[k].hi > takes[k].lo => takes[k].id = takes[k].hi
        /\ \A j \in (takes[k].lo + 1)..(takes[k].hi - 1) :
              \A m \in 1..Len(takes) : takes[m].id # j

\* C7: Offer never blocks: a handler that holds a decompressed payload can
\* always take its next step, whatever the slot holds and wherever the
\* processing thread is; put is never reached with a full queue.
C7_OfferNeverBlocks ==
    \A c \in Conns :
        /\ cpc[c] = "offer" =>
              ENABLED (Append_deque(c) \/ CheckFull_queue(c))
        /\ cpc[c] = "put" =>
              /\ Len(data_queue) < queue_maxsize
              /\ ENABLED Put_queue(c)
\* A handler is about to offer into a full slot while a frame is in work.
C7_Witness ==
    \E c \in Conns :
        /\ cpc[c] = "offer"
        /\ Len(frame_queue) = deque_maxlen
        /\ rpc = "paint"

\* C8: no payload is delivered twice: the Takes return distinct payloads.
C8_NoDoubleDelivery ==
    \A i, j \in 1..Len(takes) : i # j => takes[i].id # takes[j].id
\* Two payloads were taken.
C8_Witness == Len(takes) >= 2

\* The records of payload d that name voxel i of a page: all three
\* coordinates inside the grid and (y*X + x)*Z + z = i.
NamedBy(d, i) ==
    {k \in 1..Len(d.pts) :
        /\ d.pts[k].x < voxels_x
        /\ d.pts[k].y < voxels_y
        /\ d.pts[k].z < voxels_z
        /\ (d.pts[k].y * voxels_x + d.pts[k].x) * voxels_z + d.pts[k].z = i}

\* C9: clear-then-paint: when a frame is flipped, the page the page byte now
\* names holds at every voxel the colour of one of the in-bounds records
\* that name it, and 0 where no in-bounds record names it.
C9_ClearThenPaint ==
    [][(rpc = "flip" /\ rpc' = "take") =>
          /\ PayloadLen(data) % 4 = 0
          /\ \A i \in Voxels :
                IF NamedBy(data, i) = {}
                THEN buffers'[page'][i] = 0
                ELSE \E k \in NamedBy(data, i) :
                        buffers'[page'][i] = data.pts[k].c]_vars
\* A frame was flipped onto a page that was stale at start-up and now shows
\* lit and dark voxels.
C9_Witness ==
    /\ rpc = "take"
    /\ Len(flips) = 1
    /\ buffers[1 - page] = StalePage
    /\ \E i, j \in Voxels : buffers[page][i] \in Colors /\ buffers[page][j] = 0

\* C10: coordinate safety: every byte the scatter write changes is on the
\* write page and carries the colour of an in-bounds record that names it;
\* every in-bounds record of the frame is written; an out-of-bounds record
\* changes nothing.
C10_CoordinateSafety ==
    [][(rpc = "paint" /\ rpc' = "flip") =>
          /\ \A p \in Pages, i \in Voxels :
                buffers'[p][i] # buffers[p][i] =>
                    /\ p = write_page
                    /\ \E k \in NamedBy(data, i) :
                          buffers'[p][i] = data.pts[k].c
          /\ \A i \in Voxels :
                NamedBy(data, i) # {} =>
                    \E k \in NamedBy(data, i) :
                        buffers'[write_page][i] = data.pts[k].c]_vars
\* A frame with an out-of-bounds and an in-bounds record has been painted.
C10_Witness ==
    /\ rpc = "flip"
    /\ \E k, m \in 1..Len(data.pts) :
          /\ data.pts[k].z >= voxels_z
          /\ data.pts[m].z < voxels_z /\ data.pts[m].x < voxels_x
          /\ data.pts[m].y < voxels_y
    /\ buffers[write_page] # ZeroPage

(* ==================== properties of the frame intake ================== *)
\* C11: the empty frame is a valid all-off frame: the iteration of the
\* processing thread that took an empty payload ends with the page byte
\* changed to the page it cleared.
C11_EmptyFrameFlips ==
    [][(rpc # "take" /\ rpc' = "take" /\ PayloadLen(data) = 0)
          => (page' # page /\ page' = write_page
              /\ buffers'[page'] = ZeroPage)]_vars

\* C12: malformed length rejected before any write: while the processing
\* thread handles a payload whose length is not a multiple of 4, no step
\* changes a byte of either page or the page byte.
C12_RejectBeforeWrite ==
    [][(rpc # "take" /\ PayloadLen(data) % 4 # 0)
          => (buffers' = buffers /\ page' = page)]_vars

\* A frame was read whose signature bytes are not FF FF FF FF.
BadSignature(f) == f # NoFrame /\ f.sig # Signature

\* C13: bad header signature: a handler that read a header whose signature
\* differs from FF FF FF FF is closed and holds no payload; the step that
\* read it offered nothing and left the slot, the processing thread and the
\* shared region as they were; a closed handler stays closed.
C13_ClosedOnBadSignature ==
    \A c \in Conns :
        BadSignature(lastFrame[c]) => (cpc[c] = "Closed" /\ held[c] = NoPayload)
C13_NothingOffered ==
    \A c \in Conns :
        /\ (cpc[c] = "AwaitHeader" /\ BadSignature(lastFrame'[c]))
              => UNCHANGED <<held, slotVars, rastVars, shmVars, nOffered,
                             takes, flips>>
        /\ cpc[c] = "Closed" => cpc'[c] = "Closed"
C13_BadSignatureCloses ==
    []C13_ClosedOnBadSignature /\ [][C13_NothingOffered]_vars
\* A connection delivered a frame and then sent a header with a signature
\* that is wrong in one bit.
C13_Witness ==
    /\ cpc[1] = "Closed"
    /\ BadSignature(lastFrame[1])
    /\ nOffered >= 1

\* C14: over-size length: no handler waits for the payload of a header
\* whose length exceeds MAX_FRAME.
C14_OversizeRefused ==
    \A c \in Conns :
        cpc[c] = "AwaitPayload" => lastFrame[c].len <= MAX_FRAME

\* C15: decompression failure is scoped to one frame: whatever error
\* gzip.decompress raises on a payload, the handler offers nothing, keeps
\* the connection open and awaits the next header.
C15_DecompressionScoped ==
    [][\A c \in Conns :
          (cpc[c] = "AwaitPayload" /\ lastFrame'[c].gzip \in GzipErrors) =>
              /\ cpc'[c] = "AwaitHeader"
              /\ UNCHANGED <<slotVars, nOffered>>]_vars

\* C16: per-connection protocol order: a handler that is offering holds
\* the one payload of a frame whose signature and length were accepted and
\* whose payload was read and decompressed, and holds none otherwise; only
\* an offering handler changes the slot's tail or the count of offers, and
\* that ends its offer; a closed handler never reads or offers again.
C16_OfferAfterFrame ==
    \A c \in Conns :
        IF Running(c)
        THEN /\ lastFrame[c].sig = Signature
             /\ lastFrame[c].len <= MAX_FRAME
             /\ lastFrame[c].gzip = "ok"
             /\ held[c] # NoPayload
        ELSE held[c] = NoPayload
C16_OfferSteps ==
    /\ nOffered' # nOffered =>
          \E c \in Conns : Running(c) /\ cpc'[c] = "AwaitHeader"
    /\ \A c \in Conns :
          cpc[c] = "Closed" => (cpc'[c] = "Closed" /\ held'[c] = NoPayload)
C16_ProtocolOrder == []C16_OfferAfterFrame /\ [][C16_OfferSteps]_vars

\* A header of a frame every receiver accepts.
GoodHeader == [sig |-> Signature, len |-> MAX_FRAME]

\* A step in which the handler of c closes, or drops a payload that failed
\* to decompress.
ErrorStep(c) ==
    \/ cpc[c] \in {"AwaitHeader", "AwaitPayload"} /\ cpc'[c] = "Closed"
    \/ cpc[c] = "AwaitPayload" /\ cpc'[c] = "AwaitHeader"

\* C17: connection isolation: a step in which one handler closes or drops a
\* bad payload changes no other handler, not the slot, not the processing
\* thread and not the shared region; and a handler that awaits a header
\* while no handler occupies the event loop can read a good header, however
\* many other connections have closed.
C17_OthersUntouched ==
    \A c \in Conns :
        ErrorStep(c) =>
            /\ \A d \in Conns \ {c} : cpc'[d] = cpc[d] /\ held'[d] = held[d]
            /\ UNCHANGED <<slotVars, rastVars, shmVars, nOffered>>
C17_OthersServed ==
    \A d \in Conns :
        (cpc[d] = "AwaitHeader" /\ \A c \in Conns : ~Running(c))
            => ENABLED HeaderStep(d, GoodHeader)
C17_Isolation == []C17_OthersServed /\ [][C17_OthersUntouched]_vars
\* Connection 1 has closed before any payload was offered, and connection 2
\* has read a frame and is offering it.
C17_Witness ==
    /\ cpc[1] = "Closed"
    /\ cpc[2] = "offer"
    /\ nOffered = 0

\* C20: start-up failure is fatal: once the processing thread has given up
\* on the shared region, no handler reads a frame or offers a payload: a
\* step changes a handler only by closing it.
C20_StartupFatal ==
    [][rpc = "exited" =>
          /\ nOffered' = nOffered
          /\ \A c \in Conns : cpc'[c] \in {cpc[c], "Closed"}]_vars

\* A payload of whole records, at least one.
WellFormed(d) == PayloadLen(d) % 4 = 0 /\ PayloadLen(d) > 0

\* C18: the processing thread survives every payload: whatever it took, it
\* comes back to the Take; and a well-formed frame it took is painted and
\* then flipped, also after payloads that were dropped.
C18_RasterizerLives ==
    /\ (rpc # "take") ~> (rpc = "take")
    /\ (rpc = "read" /\ WellFormed(data)) ~> (rpc = "flip")
    /\ (rpc = "flip") ~> (rpc = "take" /\ page = write_page)
\* The first payload taken was dropped without a flip, the second is
\* painted and about to be flipped.
C18_Witness ==
    /\ Len(takes) = 2
    /\ flips = <<>>
    /\ rpc = "flip"

\* Nothing is pending: the processing thread waits at the Take, the slot is
\* empty and no handler is in the middle of an offer.
Quiescent ==
    /\ rpc = "take"
    /\ frame_queue = <<>>
    /\ data_queue = <<>>
    /\ \A c \in Conns : ~Running(c)

\* C19: concurrent producers: never more payloads taken (let alone flipped)
\* than offered; and whenever nothing is pending, the payload taken last is
\* the one that was offered after all others.
C19_LastOfferShown ==
    /\ Len(takes) <= nOffered
    /\ (Quiescent /\ nOffered > 0) =>
          (takes # <<>> /\ takes[Len(takes)].id = nOffered)

(* ================= properties of the shared region ==================== *)
\* C22: write confinement: no step changes a control byte (bpc, flags, rpm,
\* uspf); the page byte changes only in the flip of the processing thread; a
\* voxel byte changes only on the page the page byte does not name; and a
\* step of a connection handler changes nothing of the shared region.
C22_WriteConfinement ==
    [][/\ ctrl' = ctrl
       /\ page' # page => (rpc = "flip" /\ rpc' = "take")
       /\ \A p \in Pages : buffers'[p] # buffers[p] => p = 1 - page
       /\ (cpc' # cpc \/ held' # held) => UNCHANGED <<page, buffers, ctrl>>
      ]_vars
\* The processing thread has flipped a painted frame and cleared the other
\* page for the next one while the handler waits for a payload.
C22_Witness ==
    /\ flips # <<>>
    /\ buffers[page] # ZeroPage
    /\ rpc = "paint"
    /\ cpc[1] = "AwaitPayload"
    /\ ctrl = DriverCtrl

(* ================== properties of the queue receiver ================== *)
\* Payload ids in the order given.
Ids(q) == [k \in 1..Len(q) |-> q[k].id]
Increasing(s) == \A i, j \in 1..Len(s) : i < j => s[i] < s[j]

\* C23: queue receiver: at most queue_maxsize payloads are pending; the
\* payloads are taken in the order they were enqueued (what was taken and what
\* is pending, read in that order, is in the order of the offers); a payload
\* that arrives while queue_maxsize payloads are pending is discarded and
\* the pending ones stay as they are.
C23_BoundedFifo ==
    variant = "queue" =>
        /\ Len(data_queue) <= queue_maxsize
        /\ Increasing(Ids(takes) \o Ids(data_queue))
C23_FullDiscards ==
    \A c \in Conns :
        (variant = "queue" /\ cpc[c] = "offer" /\ cpc'[c] # "offer"
            /\ Len(data_queue) = queue_maxsize)
        => /\ data_queue' = data_queue
           /\ cpc'[c] = "AwaitHeader"
           /\ held'[c] = NoPayload
C23_QueueDiscipline == []C23_BoundedFifo /\ [][C23_FullDiscards]_vars
\* Three payloads were offered before the first Take: two are pending, the
\* third was discarded.
C23_Witness ==
    /\ variant = "queue"
    /\ nOffered = 3
    /\ takes = <<>>
    /\ Ids(data_queue) = <<1, 2>>
    /\ \A c \in Conns : ~Running(c)

(* ======================= properties of shutdown ======================= *)
\* C21: shutdown protocol: once the shutdown signal has been handled the
\* processing thread takes no further payload and the slot stays as it is;
\* and when the process ends the processing thread has left its loop.
C21_ShutdownProtocol ==
    [][/\ phase # "serving" => (takes' = takes /\ UNCHANGED slotVars)
       /\ (phase = "stopping" /\ phase' = "ended") => rpc = "exited"]_vars

(* ====================== properties of the sender ======================= *)
SentIds == {sender.sent[k] : k \in 1..Len(sender.sent)}

\* C25: VoxelSender, in every interleaving of send_packet and _send_loop:
\* packet_queue holds at most one packet; every packet is sent at most once;
\* a packet replaced in the queue by a newer one is never sent (nor taken by
\* the loop); the packets sent go out in the order they were queued.
C25_NewestWins ==
    sender # None =>
        /\ Len(sender.packet_queue) <= 1
        /\ \A i, j \in 1..Len(sender.sent) :
              i # j => sender.sent[i] # sender.sent[j]
        /\ sender.replaced \cap (SentIds \cup {sender.packet}) = {}
        /\ Increasing(sender.sent)
        /\ \A k \in 1..Len(sender.packet_queue) :
              sender.packet_queue[k] \notin SentIds \cup {sender.packet}

\* Two packets sent with a replaced one between them.
C25_Witness ==
    /\ sender # None
    /\ sender.sent = <<1, 3>>
    /\ sender.replaced = {2}
    /\ sender.thread = "alive"

\* UI panel: if sender and sender.running: "Streaming Active".  cancel()
\* sets sender = None when stop() has returned.
StreamingActive ==
    sender # None /\ sender.upc \in {"started", "join"} /\ sender.running

\* C26: VoxelSender.running is true only while the send thread is alive and
\* able to send (from a successful start() until stop() or a send error);
\* the panel never shows 'Streaming Active' after the send loop has exited.
C26_RunningMeansSending ==
    sender # None =>
        ((sender.running \/ StreamingActive)
            => (sender.thread = "alive" /\ sender.sock = "connected"))

(* ======================= properties of the lines ====================== *)
Max(a, b) == IF a >= b THEN a ELSE b
Min(a, b) == IF a <= b THEN a ELSE b
Between(v, a, b) == Min(a, b) <= v /\ v <= Max(a, b)

\* Steps the loop of the driving axis still has to make.
LeftToGo ==
    IF line.bpc = "x" THEN abs(line.x1 - line.x0)
    ELSE IF line.bpc = "y" THEN abs(line.y1 - line.y0)
    ELSE abs(line.z1 - line.z0)

\* C27: bresenham_3d terminates (in its loop the passes made and the distance
\* left on the driving axis add up to max(|dx|, |dy|, |dz|), so the loop ends
\* after that many passes) and returns a list whose first element is
\* (x0, y0, z0), whose last element is (x1, y1, z1) and whose length is
\* max(|dx|, |dy|, |dz|) + 1; every element built lies in the bounding box of
\* the two end points.
C27_Line ==
    line # NoCall =>
        LET longest == Max(Max(abs(line.x1 - line.from[1]),
                               abs(line.y1 - line.from[2])),
                           abs(line.z1 - line.from[3]))
            points == line.points
        IN  /\ line.bpc \in {"x", "y", "z"} =>
                  Len(points) + LeftToGo = longest
            /\ line.bpc = "return" =>
                  /\ points[1] = line.from
                  /\ points[Len(points)] = <<line.x1, line.y1, line.z1>>
                  /\ Len(points) = longest + 1
            /\ \A k \in 1..Len(points) :
                  /\ Between(points[k][1], line.from[1], line.x1)
                  /\ Between(points[k][2], line.from[2], line.y1)
                  /\ Between(points[k][3], line.from[3], line.z1)

\* A returned line that runs backwards on x and moves on both minor axes
\* at different rates.
C27_Witness ==
    /\ line # NoCall
    /\ line.bpc = "return"
    /\ line.from = <<3, 0, 0>>
    /\ <<line.x1, line.y1, line.z1>> = <<0, 2, 1>>
    /\ Len(line.points) = 4

(* ======================= properties of the wire ======================= *)
\* Number of bytes of the first k frames built.
RECURSIVE Boundary(_)
Boundary(k) ==
    IF k = 0 THEN 0
    ELSE Boundary(k - 1) + Len(build_packet(link.builder, link.built[k]))

\* C24: the frames built by generate_packet (or generate_sphere_packet) and
\* sent back to back on one connection are parsed as exactly that sequence:
\* the connection is never closed by the signature or the length check,
\* every header read starts at a frame boundary, the length read is the
\* number of compressed bytes of that frame, and the k-th payload
\* decompressed is the packed data of the k-th point list, 4 bytes per point.
C24_Synchronized ==
    link # NoLink =>
        LET decoded == link.decoded
            built == link.built
        IN  /\ link.wpc # "closed"
            /\ Len(decoded) <= Len(built)
            /\ \A k \in 1..Len(decoded) :
                  /\ decoded[k] = raw_data(Truncate(link.builder, built[k]))
                  /\ Len(decoded[k]) % 4 = 0
                  /\ Len(decoded[k]) = 4 * Len(Truncate(link.builder, built[k]))
            /\ link.wpc = "header" => link.nRead = Boundary(Len(decoded))
            /\ link.wpc = "payload" =>
                  /\ Len(decoded) < Len(built)
                  /\ link.nRead = Boundary(Len(decoded)) + 8
                  /\ link.packet_length + 8 =
                        Len(build_packet(link.builder, built[Len(decoded) + 1]))

\* Two frames parsed, the first one of 0xFF bytes, the parser waiting at
\* the boundary after the second.
C24_Witness ==
    /\ link # NoLink
    /\ Len(link.decoded) = 2
    /\ link.decoded[1] = <<255, 255, 255, 255>>
    /\ link.decoded[2] = <<1, 0, 1, 7>>
    /\ link.wpc = "header"
    /\ link.reader = <<>>
    /\ link.wire = <<>>

====
